---- MODULE Spec2Model ----
(***************************************************************************)
(* The browser client of ARCH-REPO: run -> poll -> render -> download.     *)
(*                                                                         *)
(* The repository holds four near-duplicate variants of the same page      *)
(* script.  Each is modelled from its own code:                            *)
(*   variant 1  src/arch-web-app/frontend/main.js lines   1-154            *)
(*   variant 2  src/arch-web-app/frontend/main.js lines 156-212            *)
(*   variant 3  src/arch-web-app/frontend/main.js lines 214-224            *)
(*   variant 4  src/unnamed/part_000                                       *)
(*                                                                         *)
(* JavaScript runs one handler at a time up to its next await, so every    *)
(* action below is one such stretch of code: the click handler up to the   *)
(* first await, or the continuation that runs when a fetch, a timer or the *)
(* rendering library settles.  The backend and the rendering library are   *)
(* the environment: the outcome of a request is chosen by \E among the     *)
(* outcomes the code can observe.  `await res.json()` / `res.text()` is    *)
(* folded into the response that is being read.                            *)
(***************************************************************************)
EXTENDS Integers, Sequences, FiniteSets, TLC

\* ------------------------------------------------------------------ bounds
MaxRuns  == 2   \* clicks on "run" in one session
MaxPolls == 2   \* retry timer callbacks in one session

Runs     == 1..MaxRuns
Variants == 1..4

\* ------------------------------------------------------ inputs and payloads
\* The repository field: empty, blank, a URL.
Repos == {"", " ", "u"}

\* String.prototype.trim on the values of Repos.
Trim(s) == IF s = " " THEN "" ELSE s

\* Graph descriptions the backend may hand out; "bad" is malformed.
Dots == {"g1", "g2", "bad"}

\* Body of a non-OK answer of GET /result/<job>/dot (no graph description).
ErrBody == "Not Found"

\* Does the rendering library accept the text as a graph description?
WellFormed(dot) == dot \in {"g1", "g2"}

\* Job ids: the one the backend creates for run r, the value of
\* data.job_id when the body carries none, and "no id yet".
JobId(r)  == <<"job", r>>
Undefined == <<"undefined">>
NoJob     == <<>>

\* The element viz.renderSVGElement(dot) resolves with: a new object (id)
\* drawn from dot.
Null == [id |-> 0, src |-> ""]
RenderSVGElement(r, dot) == [id |-> r, src |-> dot]

\* element.outerHTML, XMLSerializer.serializeToString(element), the text of a
\* graph description, and the PNG a canvas draws from SVG markup.
OuterHTML(e)         == <<"<svg>", e.src, "</svg>">>
SerializeToString(e) == <<"<svg>", e.src, "</svg>">>
TextOf(dot)          == <<dot>>
ToBlobPNG(markup)    == <<"PNG">> \o markup

\* ------------------------------------------------------------- status texts
StNone       == ""
StWaking     == "Waking up server (may take ~30 seconds)..."
StFailed     == "Failed to connect to backend."
StRunning    == "Running pipeline..."
StRendering  == "Rendering diagram..."
StWaiting    == "Waiting for backend..."
StDone       == "Done"   \* "Done" followed by a check-mark emoji in the source
StRenderFail == "Graphviz render failed."
StProcessing == "Processing repository..."
StVizError   == "Error: syntax error"

\* The texts that tell the user the run failed.
ErrorTexts    == {StFailed, StRenderFail, StVizError}

\* ------------------------------------------------------------------- state
VARIABLES
  variant,     \* which of the four scripts the page loaded
  nRuns,       \* calls of run() so far; run r is the r-th call
  blankPost,   \* history: a POST /run was sent with an empty or blank repo_url
  job,         \* job[r]: the job id run r polls
  dot,         \* dot[r]: the text run r handed to the rendering library
  tasks,       \* tasks[r][k]: pending continuations of run r of kind k
  ended,       \* ended[r]: how run r's chain of continuations ended
  log,         \* log[r]: what run r has done so far (history)
  status,      \* #status innerText
  out,         \* #out textContent (variant 3)
  alerts,      \* alert() boxes shown
  diagram,     \* children of #diagram
  currentSVG,  \* variants 1, 2
  currentDot,  \* variant 4
  pngs,        \* PNG exports under way: what each is drawing
  saved,       \* the file most recently saved by save() / download()
  fired,       \* retry timer callbacks run so far
  statusFailed,\* history: a GET /status was answered by anything but ready:true/false
  lastDot,     \* history: the description of the last image put in #diagram
  repeated     \* history: that render drew the same description as the one before

vars == <<variant, nRuns, blankPost, job, dot, tasks, ended, log, status, out,
          alerts, diagram, currentSVG, currentDot, pngs, saved, fired,
          statusFailed, lastDot, repeated>>

\* Kinds of pending continuation: awaiting the POST, awaiting GET /status,
\* a setTimeout callback, awaiting GET /result, awaiting the library.
Kinds == {"post", "status", "timer", "dot", "viz"}

NoTasks == [k \in Kinds |-> 0]

\* What a run has done: whether it issued POST /run, GET /status and
\* GET /result (post, polled, fetched), how often it called render /
\* renderDot and the library (render, viz), how often it read ready:true
\* (ready), how the POST and the last GET /result were answered (postResp,
\* resultResp), whether the library rejected (vizRejected), the last status
\* text the run wrote (text) and whether its image reached #diagram (placed).
NoLog == [post |-> FALSE, polled |-> FALSE, fetched |-> FALSE, render |-> 0,
          viz |-> 0, ready |-> 0, postResp |-> "none", resultResp |-> "none",
          vizRejected |-> FALSE, text |-> "", placed |-> FALSE]

\* No file saved yet.
NoFile == [name |-> "", content |-> <<>>]

Init ==
  /\ variant \in Variants
  /\ nRuns = 0
  /\ blankPost = FALSE
  /\ job = [r \in Runs |-> NoJob]
  /\ dot = [r \in Runs |-> ""]
  /\ tasks = [r \in Runs |-> NoTasks]
  /\ ended = [r \in Runs |-> "no"]
  /\ log = [r \in Runs |-> NoLog]
  /\ status = StNone
  /\ out = <<>>
  /\ alerts = 0
  /\ diagram = <<>>
  /\ currentSVG = Null
  /\ currentDot = ""
  /\ pngs = {}
  /\ saved = NoFile
  /\ fired = 0
  /\ statusFailed = FALSE
  /\ lastDot = ""
  /\ repeated = FALSE

\* ----------------------------------------------------------------- helpers
Add(r, k)  == [tasks EXCEPT ![r][k] = @ + 1]
Move(r, from, to) == [tasks EXCEPT ![r] = [@ EXCEPT ![from] = @ - 1, ![to] = @ + 1]]
Drop(r, k) == [tasks EXCEPT ![r][k] = @ - 1]

Pending(r, k) == tasks[r][k] > 0

\* Outcomes of the three requests, as the code can tell them apart.
\*   "ok"        2xx with the body the interface promises
\*   "err_json"  non-2xx whose body parses as JSON (no job_id, no ready)
\*   "err_text"  non-2xx whose body is not JSON (res.json() rejects)
\*   "reject"    fetch itself rejects (network failure)
PostOutcomes   == {"ok", "err_json", "err_text", "reject"}
StatusOutcomes == {"ready", "not_ready", "err_json", "err_text", "reject"}
ResultOutcomes == {"ok", "err", "reject"}

\* The backend has no job called "undefined": it answers non-OK for it.
StatusFor(j) == IF j = Undefined THEN {"err_json", "err_text", "reject"}
                ELSE StatusOutcomes
ResultFor(j) == IF j = Undefined THEN {"err", "reject"} ELSE ResultOutcomes

\* How the code sees an answer: OK, non-OK (HTTP 500 and the like), rejected.
Class(resp) == IF resp \in {"err_json", "err_text", "err"} THEN "500" ELSE resp

\* A retry timer may still fire (the bound on polling).
MayFire == fired < MaxPolls

\* Place without `container.innerHTML = ""`: the new image is appended to
\* whatever the container holds.
Place_noClear(container, svg) == Append(container, svg)

\* container.innerHTML = ""; container.appendChild(svg)
Place(container, svg) == <<svg>>

\* What the user sees in #diagram: the markup of its children.
View(container) == [i \in 1..Len(container) |-> OuterHTML(container[i])]

\* The rendered image on hand when a download button is clicked.
Held == IF variant = 4
          THEN IF diagram = <<>> THEN Null ELSE diagram[Len(diagram)]
          ELSE currentSVG

\* save(blob, name) / download(blob, filename): the link is clicked.
Save(name, content) == [name |-> name, content |-> content]

\* Images put in #diagram so far.
PlacedCount == Cardinality({r \in Runs : log[r].placed})

RunUnchanged    == UNCHANGED <<nRuns, blankPost>>
ExportUnchanged == UNCHANGED <<pngs, saved>>
ImageUnchanged  == UNCHANGED <<diagram, currentSVG, currentDot, lastDot, repeated>>

\* ============================================================== variant 1
\* run1 with a cancellation of the polls under way: a new run drops the
\* continuations of the runs before it.
run1_cancelsEarlier(v) ==
  /\ variant = 1
  /\ nRuns < MaxRuns
  /\ LET r == nRuns + 1 IN
       /\ nRuns' = r
       /\ IF Trim(v) = ""
            THEN /\ alerts' = alerts + 1
                 /\ ended' = [ended EXCEPT ![r] = "alerted"]
                 /\ UNCHANGED <<status, tasks, log, blankPost>>
            ELSE /\ status' = StWaking
                 /\ blankPost' = (blankPost \/ Trim(Trim(v)) = "")
                 /\ tasks' = [q \in Runs |-> IF q = r THEN Add(r, "post")[r] ELSE NoTasks]
                 /\ log' = [log EXCEPT ![r].post = TRUE, ![r].text = StWaking]
                 /\ UNCHANGED <<alerts, ended>>
  /\ UNCHANGED <<variant, statusFailed, fired, job, dot, out>>
  /\ ImageUnchanged /\ ExportUnchanged

\* run(), up to `await fetch(.../run?repo_url=...)`.
run1(v) ==
  /\ variant = 1
  /\ nRuns < MaxRuns
  /\ LET r == nRuns + 1 IN
       /\ nRuns' = r
       /\ IF Trim(v) = ""
            THEN /\ alerts' = alerts + 1
                 /\ ended' = [ended EXCEPT ![r] = "alerted"]
                 /\ UNCHANGED <<status, tasks, log, blankPost>>
            ELSE /\ status' = StWaking
                 /\ blankPost' = (blankPost \/ Trim(Trim(v)) = "")
                 /\ tasks' = Add(r, "post")
                 /\ log' = [log EXCEPT ![r].post = TRUE, ![r].text = StWaking]
                 /\ UNCHANGED <<alerts, ended>>
  /\ UNCHANGED <<variant, statusFailed, fired, job, dot, out>>
  /\ ImageUnchanged /\ ExportUnchanged

\* run1_resume without the `if (!res.ok) throw`: a non-OK answer whose body
\* parses goes on to poll(data.job_id) with no job id.
run1_resume_noOkCheck(r, resp) ==
  /\ variant = 1
  /\ Pending(r, "post")
  /\ IF resp \in {"ok", "err_json"}
       THEN /\ job' = [job EXCEPT ![r] = IF resp = "ok" THEN JobId(r) ELSE Undefined]
            /\ tasks' = Move(r, "post", "status")
            /\ log' = [log EXCEPT ![r].postResp = Class(resp), ![r].polled = TRUE]
            /\ UNCHANGED <<status, ended>>
       ELSE /\ status' = StFailed
            /\ tasks' = Drop(r, "post")
            /\ ended' = [ended EXCEPT ![r] = "postFailed"]
            /\ log' = [log EXCEPT ![r].postResp = Class(resp), ![r].text = StFailed]
            /\ UNCHANGED job
  /\ UNCHANGED <<variant, statusFailed, fired, dot, out, alerts>>
  /\ RunUnchanged /\ ImageUnchanged /\ ExportUnchanged

\* run() after the POST settles: res.ok, res.json(), poll(data.job_id) up to
\* its `await fetch(.../status/job)`; or the catch block.
run1_resume(r, resp) ==
  /\ variant = 1
  /\ Pending(r, "post")
  /\ IF resp = "ok"
       THEN /\ job' = [job EXCEPT ![r] = JobId(r)]
            /\ tasks' = Move(r, "post", "status")
            /\ log' = [log EXCEPT ![r].postResp = Class(resp), ![r].polled = TRUE]
            /\ UNCHANGED <<status, ended>>
       ELSE /\ status' = StFailed
            /\ tasks' = Drop(r, "post")
            /\ ended' = [ended EXCEPT ![r] = "postFailed"]
            /\ log' = [log EXCEPT ![r].postResp = Class(resp), ![r].text = StFailed]
            /\ UNCHANGED job
  /\ UNCHANGED <<variant, statusFailed, fired, dot, out, alerts>>
  /\ RunUnchanged /\ ImageUnchanged /\ ExportUnchanged

\* poll1_resume without the `return` after setTimeout: a ready:false answer
\* schedules the retry and falls through to render(job).
poll1_resume_noReturn(r, resp) ==
  /\ variant = 1
  /\ Pending(r, "status")
  /\ CASE resp = "not_ready" ->
            /\ status' = StRendering
            /\ tasks' = [tasks EXCEPT ![r] = [@ EXCEPT !["status"] = @ - 1,
                                                        !["timer"] = @ + 1,
                                                        !["dot"] = @ + 1]]
            /\ log' = [log EXCEPT ![r].render = @ + 1,
                                  ![r].fetched = TRUE, ![r].text = StRendering]
       [] resp = "ready" ->
            /\ status' = StRendering
            /\ tasks' = Move(r, "status", "dot")
            /\ log' = [log EXCEPT ![r].ready = @ + 1, ![r].render = @ + 1,
                                  ![r].fetched = TRUE, ![r].text = StRendering]
       [] OTHER ->
            /\ status' = StWaiting
            /\ tasks' = Move(r, "status", "timer")
            /\ log' = [log EXCEPT ![r].text = StWaiting]
  /\ statusFailed' = (statusFailed \/ resp \notin {"ready", "not_ready"})
  /\ UNCHANGED <<variant, fired, job, dot, ended, out, alerts>>
  /\ RunUnchanged /\ ImageUnchanged /\ ExportUnchanged

\* poll1_resume whose catch block schedules the retry twice.
poll1_resume_doubleRetry(r, resp) ==
  /\ variant = 1
  /\ Pending(r, "status")
  /\ CASE resp = "not_ready" ->
            /\ status' = StRunning
            /\ tasks' = Move(r, "status", "timer")
            /\ log' = [log EXCEPT ![r].text = StRunning]
       [] resp = "ready" ->
            /\ status' = StRendering
            /\ tasks' = Move(r, "status", "dot")
            /\ log' = [log EXCEPT ![r].ready = @ + 1, ![r].render = @ + 1,
                                  ![r].fetched = TRUE, ![r].text = StRendering]
       [] OTHER ->
            /\ status' = StWaiting
            /\ tasks' = [tasks EXCEPT ![r] = [@ EXCEPT !["status"] = @ - 1,
                                                       !["timer"] = @ + 2]]
            /\ log' = [log EXCEPT ![r].text = StWaiting]
  /\ statusFailed' = (statusFailed \/ resp \notin {"ready", "not_ready"})
  /\ UNCHANGED <<variant, fired, job, dot, ended, out, alerts>>
  /\ RunUnchanged /\ ImageUnchanged /\ ExportUnchanged

\* poll(job) after GET /status settles.
poll1_resume(r, resp) ==
  /\ variant = 1
  /\ Pending(r, "status")
  /\ CASE resp = "not_ready" ->
            /\ status' = StRunning
            /\ tasks' = Move(r, "status", "timer")
            /\ log' = [log EXCEPT ![r].text = StRunning]
       [] resp = "ready" ->
            \* render(job) runs up to its `await fetch(.../result/job/dot)`
            /\ status' = StRendering
            /\ tasks' = Move(r, "status", "dot")
            /\ log' = [log EXCEPT ![r].ready = @ + 1, ![r].render = @ + 1,
                                  ![r].fetched = TRUE, ![r].text = StRendering]
       [] OTHER ->
            \* !res.ok, res.json() rejecting and fetch rejecting all reach
            \* the catch block
            /\ status' = StWaiting
            /\ tasks' = Move(r, "status", "timer")
            /\ log' = [log EXCEPT ![r].text = StWaiting]
  /\ statusFailed' = (statusFailed \/ resp \notin {"ready", "not_ready"})
  /\ UNCHANGED <<variant, fired, job, dot, ended, out, alerts>>
  /\ RunUnchanged /\ ImageUnchanged /\ ExportUnchanged

\* The setTimeout callback () => poll(job), up to poll's await.
timer1(r) ==
  /\ variant = 1
  /\ Pending(r, "timer")
  /\ MayFire
  /\ tasks' = Move(r, "timer", "status")
  /\ fired' = fired + 1
  /\ UNCHANGED <<variant, statusFailed, job, dot, ended, log, status, out, alerts>>
  /\ RunUnchanged /\ ImageUnchanged /\ ExportUnchanged

\* render1_dot whose failure path empties #diagram before reporting.
render1_dot_clearOnFail(r, resp, d) ==
  /\ variant = 1
  /\ Pending(r, "dot")
  /\ IF resp = "ok"
       THEN /\ dot' = [dot EXCEPT ![r] = d]
            /\ tasks' = Move(r, "dot", "viz")
            /\ log' = [log EXCEPT ![r].resultResp = Class(resp), ![r].viz = @ + 1]
            /\ UNCHANGED <<status, ended, diagram>>
       ELSE /\ status' = StRenderFail
            /\ diagram' = <<>>
            /\ tasks' = Drop(r, "dot")
            /\ ended' = [ended EXCEPT ![r] = "renderFailed"]
            /\ log' = [log EXCEPT ![r].resultResp = Class(resp), ![r].text = StRenderFail]
            /\ UNCHANGED dot
  /\ UNCHANGED <<variant, statusFailed, fired, job, out, alerts>>
  /\ UNCHANGED <<currentSVG, currentDot, lastDot, repeated>>
  /\ RunUnchanged /\ ExportUnchanged

\* render(job) after GET /result settles, up to `await viz.renderSVGElement`.
render1_dot(r, resp, d) ==
  /\ variant = 1
  /\ Pending(r, "dot")
  /\ IF resp = "ok"
       THEN /\ dot' = [dot EXCEPT ![r] = d]
            /\ tasks' = Move(r, "dot", "viz")
            /\ log' = [log EXCEPT ![r].resultResp = Class(resp), ![r].viz = @ + 1]
            /\ UNCHANGED <<status, ended>>
       ELSE /\ status' = StRenderFail
            /\ tasks' = Drop(r, "dot")
            /\ ended' = [ended EXCEPT ![r] = "renderFailed"]
            /\ log' = [log EXCEPT ![r].resultResp = Class(resp), ![r].text = StRenderFail]
            /\ UNCHANGED dot
  /\ UNCHANGED <<variant, statusFailed, fired, job, out, alerts>>
  /\ RunUnchanged /\ ImageUnchanged /\ ExportUnchanged

\* render1_svg that keeps the resolved element in a local and never assigns
\* currentSVG.
render1_svg_noAssign(r) ==
  /\ variant = 1
  /\ Pending(r, "viz")
  /\ tasks' = Drop(r, "viz")
  /\ dot' = [dot EXCEPT ![r] = ""]
  /\ IF WellFormed(dot[r])
       THEN LET svg == RenderSVGElement(r, dot[r]) IN
            /\ diagram' = Place(diagram, svg)
            /\ lastDot' = dot[r] /\ repeated' = (dot[r] = lastDot)
            /\ status' = StDone
            /\ ended' = [ended EXCEPT ![r] = "done"]
            /\ log' = [log EXCEPT ![r].placed = TRUE, ![r].text = StDone]
            /\ UNCHANGED currentSVG
       ELSE /\ status' = StRenderFail
            /\ ended' = [ended EXCEPT ![r] = "renderFailed"]
            /\ log' = [log EXCEPT ![r].vizRejected = TRUE, ![r].text = StRenderFail]
            /\ UNCHANGED <<currentSVG, diagram, lastDot, repeated>>
  /\ UNCHANGED <<variant, statusFailed, fired, job, out, alerts, currentDot>>
  /\ RunUnchanged /\ ExportUnchanged

\* render(job) after the library settles.
render1_svg(r) ==
  /\ variant = 1
  /\ Pending(r, "viz")
  /\ tasks' = Drop(r, "viz")
  /\ dot' = [dot EXCEPT ![r] = ""]
  /\ IF WellFormed(dot[r])
       THEN LET svg == RenderSVGElement(r, dot[r]) IN
            /\ currentSVG' = svg
            /\ diagram' = Place(diagram, svg)
            /\ lastDot' = dot[r] /\ repeated' = (dot[r] = lastDot)
            /\ status' = StDone
            /\ ended' = [ended EXCEPT ![r] = "done"]
            /\ log' = [log EXCEPT ![r].placed = TRUE, ![r].text = StDone]
       ELSE /\ status' = StRenderFail
            /\ ended' = [ended EXCEPT ![r] = "renderFailed"]
            /\ log' = [log EXCEPT ![r].vizRejected = TRUE, ![r].text = StRenderFail]
            /\ UNCHANGED <<currentSVG, diagram, lastDot, repeated>>
  /\ UNCHANGED <<variant, statusFailed, fired, job, out, alerts, currentDot>>
  /\ RunUnchanged /\ ExportUnchanged

\* downloadSVG()
downloadSVG1 ==
  /\ variant = 1
  /\ IF currentSVG = Null
       THEN UNCHANGED saved
       ELSE saved' = Save("architecture.svg", OuterHTML(currentSVG))
  /\ UNCHANGED <<variant, statusFailed, fired, job, dot, tasks, ended, log, status, out, alerts, pngs>>
  /\ RunUnchanged /\ ImageUnchanged

\* downloadPNG(), up to `img.src = url`: the image starts loading.
downloadPNG1 ==
  /\ variant = 1
  /\ IF currentSVG = Null
       THEN UNCHANGED pngs
       ELSE pngs' = pngs \cup {SerializeToString(currentSVG)}
  /\ UNCHANGED <<variant, statusFailed, fired, job, dot, tasks, ended, log, status, out, alerts, saved>>
  /\ RunUnchanged /\ ImageUnchanged


\* ============================================================== variant 2
\* run(), up to `await fetch("/run?repo_url=...")`: the field is not checked.
run2(v) ==
  /\ variant = 2
  /\ nRuns < MaxRuns
  /\ LET r == nRuns + 1 IN
       /\ nRuns' = r
       /\ status' = StRunning
       /\ blankPost' = (blankPost \/ Trim(v) = "")
       /\ tasks' = Add(r, "post")
       /\ log' = [log EXCEPT ![r].post = TRUE, ![r].text = StRunning]
  /\ UNCHANGED <<variant, statusFailed, fired, job, dot, ended, out, alerts>>
  /\ ImageUnchanged /\ ExportUnchanged

\* run() after the POST settles: res.json(), poll(data.job_id) up to its
\* await.  res.ok is not read and nothing is caught: a rejection ends run().
run2_resume(r, resp) ==
  /\ variant = 2
  /\ Pending(r, "post")
  /\ IF resp \in {"ok", "err_json"}
       THEN /\ job' = [job EXCEPT ![r] = IF resp = "ok" THEN JobId(r) ELSE Undefined]
            /\ tasks' = Move(r, "post", "status")
            /\ log' = [log EXCEPT ![r].postResp = Class(resp), ![r].polled = TRUE]
            /\ UNCHANGED ended
       ELSE /\ tasks' = Drop(r, "post")
            /\ ended' = [ended EXCEPT ![r] = "postCrashed"]
            /\ log' = [log EXCEPT ![r].postResp = Class(resp)]
            /\ UNCHANGED job
  /\ UNCHANGED <<variant, statusFailed, fired, dot, status, out, alerts>>
  /\ RunUnchanged /\ ImageUnchanged /\ ExportUnchanged

\* poll2_resume with the test inverted (`if (s.ready)`): render(job) is
\* reached on ready:false and the retry is scheduled on ready:true.
poll2_resume_inverted(r, resp) ==
  /\ variant = 2
  /\ Pending(r, "status")
  /\ resp \in StatusFor(job[r])
  /\ CASE resp = "ready" ->
            /\ tasks' = Move(r, "status", "timer")
            /\ log' = [log EXCEPT ![r].ready = @ + 1]
            /\ UNCHANGED <<status, ended>>
       [] resp \in {"not_ready", "err_json"} ->
            /\ status' = StRendering
            /\ tasks' = Move(r, "status", "dot")
            /\ log' = [log EXCEPT ![r].render = @ + 1,
                                  ![r].fetched = TRUE, ![r].text = StRendering]
            /\ UNCHANGED ended
       [] OTHER ->
            /\ tasks' = Drop(r, "status")
            /\ ended' = [ended EXCEPT ![r] = "pollCrashed"]
            /\ UNCHANGED <<status, log>>
  /\ statusFailed' = (statusFailed \/ resp \notin {"ready", "not_ready"})
  /\ UNCHANGED <<variant, fired, job, dot, out, alerts>>
  /\ RunUnchanged /\ ImageUnchanged /\ ExportUnchanged

\* poll(job) after `fetch(...).then(r => r.json())` settles.
poll2_resume(r, resp) ==
  /\ variant = 2
  /\ Pending(r, "status")
  /\ resp \in StatusFor(job[r])
  /\ CASE resp = "not_ready" ->
            /\ tasks' = Move(r, "status", "timer")
            /\ UNCHANGED <<status, ended, log>>
       [] resp = "ready" ->
            /\ status' = StRendering
            /\ tasks' = Move(r, "status", "dot")
            /\ log' = [log EXCEPT ![r].ready = @ + 1, ![r].render = @ + 1,
                                  ![r].fetched = TRUE, ![r].text = StRendering]
            /\ UNCHANGED ended
       [] resp = "err_json" ->
            \* s.ready is undefined: taken for "not ready"
            /\ tasks' = Move(r, "status", "timer")
            /\ UNCHANGED <<status, ended, log>>
       [] OTHER ->
            \* the awaited promise rejects and nothing catches it
            /\ tasks' = Drop(r, "status")
            /\ ended' = [ended EXCEPT ![r] = "pollCrashed"]
            /\ UNCHANGED <<status, log>>
  /\ statusFailed' = (statusFailed \/ resp \notin {"ready", "not_ready"})
  /\ UNCHANGED <<variant, fired, job, dot, out, alerts>>
  /\ RunUnchanged /\ ImageUnchanged /\ ExportUnchanged

\* The setTimeout callback () => poll(job), up to poll's await.
timer2(r) ==
  /\ variant = 2
  /\ Pending(r, "timer")
  /\ MayFire
  /\ tasks' = Move(r, "timer", "status")
  /\ fired' = fired + 1
  /\ UNCHANGED <<variant, statusFailed, job, dot, ended, log, status, out, alerts>>
  /\ RunUnchanged /\ ImageUnchanged /\ ExportUnchanged

\* render(job) after `fetch(...).then(r => r.text())` settles: the body of
\* a non-OK answer is handed to the library like a graph description.
render2_dot(r, resp, d) ==
  /\ variant = 2
  /\ Pending(r, "dot")
  /\ IF resp \in {"ok", "err"}
       THEN /\ dot' = [dot EXCEPT ![r] = IF resp = "ok" THEN d ELSE ErrBody]
            /\ tasks' = Move(r, "dot", "viz")
            /\ log' = [log EXCEPT ![r].resultResp = Class(resp), ![r].viz = @ + 1]
            /\ UNCHANGED ended
       ELSE /\ tasks' = Drop(r, "dot")
            /\ ended' = [ended EXCEPT ![r] = "renderCrashed"]
            /\ log' = [log EXCEPT ![r].resultResp = Class(resp)]
            /\ UNCHANGED dot
  /\ UNCHANGED <<variant, statusFailed, fired, job, status, out, alerts>>
  /\ RunUnchanged /\ ImageUnchanged /\ ExportUnchanged

\* render(job) after the library settles; a rejection is not caught.
render2_svg(r) ==
  /\ variant = 2
  /\ Pending(r, "viz")
  /\ tasks' = Drop(r, "viz")
  /\ dot' = [dot EXCEPT ![r] = ""]
  /\ IF WellFormed(dot[r])
       THEN LET svg == RenderSVGElement(r, dot[r]) IN
            /\ currentSVG' = svg
            /\ diagram' = Place(diagram, svg)
            /\ lastDot' = dot[r] /\ repeated' = (dot[r] = lastDot)
            /\ ended' = [ended EXCEPT ![r] = "done"]
            /\ log' = [log EXCEPT ![r].placed = TRUE]
       ELSE /\ ended' = [ended EXCEPT ![r] = "renderCrashed"]
            /\ log' = [log EXCEPT ![r].vizRejected = TRUE]
            /\ UNCHANGED <<currentSVG, diagram, lastDot, repeated>>
  /\ UNCHANGED <<variant, statusFailed, fired, job, status, out, alerts, currentDot>>
  /\ RunUnchanged /\ ExportUnchanged

\* downloadSVG(): with currentSVG null, reading .outerHTML throws a
\* TypeError before save() is reached.
downloadSVG2 ==
  /\ variant = 2
  /\ IF currentSVG = Null
       THEN UNCHANGED saved
       ELSE saved' = Save("architecture.svg", OuterHTML(currentSVG))
  /\ UNCHANGED <<variant, statusFailed, fired, job, dot, tasks, ended, log, status, out, alerts, pngs>>
  /\ RunUnchanged /\ ImageUnchanged

\* downloadPNG(), up to `img.src = url`: with currentSVG null,
\* serializeToString(null) throws a TypeError before the image is loaded.
downloadPNG2 ==
  /\ variant = 2
  /\ IF currentSVG = Null
       THEN UNCHANGED pngs
       ELSE pngs' = pngs \cup {SerializeToString(currentSVG)}
  /\ UNCHANGED <<variant, statusFailed, fired, job, dot, tasks, ended, log, status, out, alerts, saved>>
  /\ RunUnchanged /\ ImageUnchanged

\* ============================================================== variant 3
\* run(), up to `await fetch(...)`: no check of the field, no status text.
run3(v) ==
  /\ variant = 3
  /\ nRuns < MaxRuns
  /\ LET r == nRuns + 1 IN
       /\ nRuns' = r
       /\ blankPost' = (blankPost \/ Trim(v) = "")
       /\ tasks' = Add(r, "post")
       /\ log' = [log EXCEPT ![r].post = TRUE]
  /\ UNCHANGED <<variant, statusFailed, fired, job, dot, ended, status, out, alerts>>
  /\ ImageUnchanged /\ ExportUnchanged

\* run() after the POST settles: r.json(), then the job id is written to #out.
run3_resume(r, resp) ==
  /\ variant = 3
  /\ Pending(r, "post")
  /\ tasks' = Drop(r, "post")
  /\ log' = [log EXCEPT ![r].postResp = Class(resp)]
  /\ IF resp \in {"ok", "err_json"}
       THEN LET j == IF resp = "ok" THEN JobId(r) ELSE Undefined IN
            /\ job' = [job EXCEPT ![r] = j]
            /\ out' = <<"Job ID: ">> \o j
            /\ ended' = [ended EXCEPT ![r] = "done"]
       ELSE /\ ended' = [ended EXCEPT ![r] = "postCrashed"]
            /\ UNCHANGED <<job, out>>
  /\ UNCHANGED <<variant, statusFailed, fired, dot, status, alerts>>
  /\ RunUnchanged /\ ImageUnchanged /\ ExportUnchanged

\* ============================================================== variant 4
\* run(), up to `await fetch(RENDER_URL/run, ...)`: the field is not checked.
run4(v) ==
  /\ variant = 4
  /\ nRuns < MaxRuns
  /\ LET r == nRuns + 1 IN
       /\ nRuns' = r
       /\ status' = StRunning
       /\ blankPost' = (blankPost \/ Trim(v) = "")
       /\ tasks' = Add(r, "post")
       /\ log' = [log EXCEPT ![r].post = TRUE, ![r].text = StRunning]
  /\ UNCHANGED <<variant, statusFailed, fired, job, dot, ended, out, alerts>>
  /\ ImageUnchanged /\ ExportUnchanged

\* run() after the POST settles: res.json(), poll(jobId) up to its
\* `await fetch(.../result/jobId/dot)`.  Nothing is caught.
run4_resume(r, resp) ==
  /\ variant = 4
  /\ Pending(r, "post")
  /\ IF resp \in {"ok", "err_json"}
       THEN /\ job' = [job EXCEPT ![r] = IF resp = "ok" THEN JobId(r) ELSE Undefined]
            /\ status' = StProcessing
            /\ tasks' = Move(r, "post", "dot")
            /\ log' = [log EXCEPT ![r].postResp = Class(resp), ![r].fetched = TRUE,
                                  ![r].text = StProcessing]
            /\ UNCHANGED ended
       ELSE /\ tasks' = Drop(r, "post")
            /\ ended' = [ended EXCEPT ![r] = "postCrashed"]
            /\ log' = [log EXCEPT ![r].postResp = Class(resp)]
            /\ UNCHANGED <<job, status>>
  /\ UNCHANGED <<variant, statusFailed, fired, dot, out, alerts>>
  /\ RunUnchanged /\ ImageUnchanged /\ ExportUnchanged

\* poll(jobId) after GET /result settles: a non-OK answer means "not yet";
\* an OK one is stored, handed to renderDot (which returns at once) and the
\* status is set to Done.
poll4_resume(r, resp, d) ==
  /\ variant = 4
  /\ Pending(r, "dot")
  /\ resp \in ResultFor(job[r])
  /\ CASE resp = "err" ->
            /\ tasks' = Move(r, "dot", "timer")
            /\ log' = [log EXCEPT ![r].resultResp = Class(resp)]
            /\ UNCHANGED <<currentDot, dot, status, ended>>
       [] resp = "ok" ->
            /\ currentDot' = d
            /\ dot' = [dot EXCEPT ![r] = d]
            /\ status' = StDone
            /\ tasks' = Move(r, "dot", "viz")
            /\ log' = [log EXCEPT ![r].resultResp = Class(resp), ![r].render = @ + 1,
                                  ![r].viz = @ + 1, ![r].text = StDone]
            /\ UNCHANGED ended
       [] OTHER ->
            /\ tasks' = Drop(r, "dot")
            /\ ended' = [ended EXCEPT ![r] = "pollCrashed"]
            /\ log' = [log EXCEPT ![r].resultResp = Class(resp)]
            /\ UNCHANGED <<currentDot, dot, status>>
  /\ UNCHANGED <<variant, statusFailed, fired, job, out, alerts, diagram, currentSVG, lastDot, repeated>>
  /\ RunUnchanged /\ ExportUnchanged

\* The setTimeout callback () => poll(jobId), up to poll's await.
timer4(r) ==
  /\ variant = 4
  /\ Pending(r, "timer")
  /\ MayFire
  /\ status' = StProcessing
  /\ tasks' = Move(r, "timer", "dot")
  /\ fired' = fired + 1
  /\ log' = [log EXCEPT ![r].text = StProcessing]
  /\ UNCHANGED <<variant, statusFailed, job, dot, ended, out, alerts>>
  /\ RunUnchanged /\ ImageUnchanged /\ ExportUnchanged

\* renderDot(dot): the .then / .catch callback of viz.renderSVGElement(dot).
renderDot4_settled(r) ==
  /\ variant = 4
  /\ Pending(r, "viz")
  /\ tasks' = Drop(r, "viz")
  /\ dot' = [dot EXCEPT ![r] = ""]
  /\ IF WellFormed(dot[r])
       THEN /\ diagram' = Place(diagram, RenderSVGElement(r, dot[r]))
            /\ lastDot' = dot[r] /\ repeated' = (dot[r] = lastDot)
            /\ ended' = [ended EXCEPT ![r] = "done"]
            /\ log' = [log EXCEPT ![r].placed = TRUE]
            /\ UNCHANGED status
       ELSE /\ status' = StVizError
            /\ ended' = [ended EXCEPT ![r] = "renderFailed"]
            /\ log' = [log EXCEPT ![r].vizRejected = TRUE, ![r].text = StVizError]
            /\ UNCHANGED <<diagram, lastDot, repeated>>
  /\ UNCHANGED <<variant, statusFailed, fired, job, out, alerts, currentSVG, currentDot>>
  /\ RunUnchanged /\ ExportUnchanged

\* downloadSVG(): the blob is made of currentDot, whatever it holds.
downloadSVG4 ==
  /\ variant = 4
  /\ saved' = Save("architecture.svg", TextOf(currentDot))
  /\ UNCHANGED <<variant, statusFailed, fired, job, dot, tasks, ended, log, status, out, alerts, pngs>>
  /\ RunUnchanged /\ ImageUnchanged

\* downloadPNG(), up to the call of viz.renderImageElement(currentDot).  A
\* rejection of that promise has no handler, so only a text the library
\* accepts leaves an export under way (the empty text yields no image).
downloadPNG4 ==
  /\ variant = 4
  /\ IF WellFormed(currentDot)
       THEN pngs' = pngs \cup {TextOf(currentDot)}
       ELSE UNCHANGED pngs
  /\ UNCHANGED <<variant, statusFailed, fired, job, dot, tasks, ended, log, status, out, alerts, saved>>
  /\ RunUnchanged /\ ImageUnchanged

\* ========================================================= PNG completion
\* Variants 1, 2: img.onload draws the image and canvas.toBlob's callback
\* calls save(blob, "architecture.png").
png_saved(b) ==
  /\ variant \in {1, 2}
  /\ b \in pngs
  /\ saved' = Save("architecture.png", ToBlobPNG(b))
  /\ pngs' = pngs \ {b}
  /\ UNCHANGED <<variant, statusFailed, fired, job, dot, tasks, ended, log, status, out, alerts>>
  /\ RunUnchanged /\ ImageUnchanged

\* Variant 4: viz.renderImageElement resolved; the image is fetched and
\* download(blob, "architecture.png") is called.
png4_saved(b) ==
  /\ variant = 4
  /\ b \in pngs
  /\ saved' = Save("architecture.png",
                   ToBlobPNG(OuterHTML(RenderSVGElement(0, b[1]))))
  /\ pngs' = pngs \ {b}
  /\ UNCHANGED <<variant, statusFailed, fired, job, dot, tasks, ended, log, status, out, alerts>>
  /\ RunUnchanged /\ ImageUnchanged

\* ============================================================ specification
Next ==
  \/ \E v \in Repos : run1(v)
  \/ \E r \in Runs, resp \in PostOutcomes : run1_resume(r, resp)
  \/ \E r \in Runs, resp \in StatusOutcomes : poll1_resume(r, resp)
  \/ \E r \in Runs : timer1(r)
  \/ \E r \in Runs, resp \in ResultOutcomes, d \in Dots : render1_dot(r, resp, d)
  \/ \E r \in Runs : render1_svg(r)
  \/ downloadSVG1
  \/ downloadPNG1
  \/ \E v \in Repos : run2(v)
  \/ \E r \in Runs, resp \in PostOutcomes : run2_resume(r, resp)
  \/ \E r \in Runs, resp \in StatusOutcomes : poll2_resume(r, resp)
  \/ \E r \in Runs : timer2(r)
  \/ \E r \in Runs, resp \in ResultOutcomes, d \in Dots : render2_dot(r, resp, d)
  \/ \E r \in Runs : render2_svg(r)
  \/ downloadSVG2
  \/ downloadPNG2
  \/ \E v \in Repos : run3(v)
  \/ \E r \in Runs, resp \in PostOutcomes : run3_resume(r, resp)
  \/ \E v \in Repos : run4(v)
  \/ \E r \in Runs, resp \in PostOutcomes : run4_resume(r, resp)
  \/ \E r \in Runs, resp \in ResultOutcomes, d \in Dots : poll4_resume(r, resp, d)
  \/ \E r \in Runs : timer4(r)
  \/ \E r \in Runs : renderDot4_settled(r)
  \/ downloadSVG4
  \/ downloadPNG4
  \/ \E b \in pngs : png_saved(b)
  \/ \E b \in pngs : png4_saved(b)

Spec == Init /\ [][Next]_vars

\* ================================================================== claims
\* Run r has no continuation left: nothing more will happen in it.
Quiet(r) == \A k \in Kinds : tasks[r][k] = 0

\* The variants that ask GET /status (main.js, first and second script).
StatusPolling == variant \in {1, 2}

\* C1: with an empty (or blank) repository field, run() sends no POST /run,
\* in any variant.
C1_EmptyUrlSendsNothing == ~blankPost

\* C2: in one call chain of poll(job), the ready path render(job) is entered
\* exactly once, when ready:true is read and not before, however many
\* ready:false answers came first; after ready:true no status request and
\* no retry timer of that job is left.
C2_ReadyPathOnce ==
  StatusPolling =>
    \A r \in Runs :
      /\ log[r].ready <= 1
      /\ log[r].render = log[r].ready
      /\ log[r].ready = 1 => tasks[r]["status"] = 0 /\ tasks[r]["timer"] = 0

\* C2 witness: a single run read two ready:false answers, then ready:true,
\* and entered render once.
C2_Witness ==
  /\ StatusPolling
  /\ nRuns = 1
  /\ fired = 2
  /\ ~statusFailed
  /\ log[1].ready = 1
  /\ log[1].render = 1

\* C3: a POST /run answered with HTTP 500 leaves the run, once it has
\* nothing more to do, with an error message as its last status text, in
\* every variant.
C3_Submit500ShowsError ==
  \A r \in Runs :
    (log[r].postResp = "500" /\ Quiet(r)) => log[r].text \in ErrorTexts

\* C4: as long as no render has succeeded, downloadSVG / downloadPNG save no
\* file and start no export, in every variant.
C4_NoExportBeforeRender ==
  PlacedCount = 0 => (saved = NoFile /\ pngs = {})

\* C5: after a successful render, the file downloadSVG saves holds the
\* serialization of the rendered image on hand, in every variant.
C5_SvgExportIsRenderedImage ==
  [][(/\ saved' # saved
      /\ saved'.name = "architecture.svg"
      /\ PlacedCount > 0) => saved'.content = OuterHTML(Held)]_vars

\* C6: a render that draws the same description as the render before it
\* leaves #diagram with exactly one image, showing what it showed before.
C6_RenderIdempotent ==
  [][(/\ PlacedCount' = PlacedCount + 1
      /\ PlacedCount > 0
      /\ lastDot' = lastDot) => (/\ Len(diagram') = 1
                                 /\ View(diagram') = View(diagram))]_vars

\* C6 witness: two renders have reached #diagram, the second of the same
\* description as the first.
C6_Witness == PlacedCount >= 2 /\ repeated /\ diagram # <<>>

\* C7 as stated: GET /result/<job>/dot is issued for a job only after a
\* ready:true status answer for that job was read.
C7_FetchOnlyAfterReady ==
  \A r \in Runs : log[r].fetched => log[r].ready >= 1

\* C7 amended: in the variants that ask GET /status, GET /result/<job>/dot
\* is issued only after ready:true was read for that job, and an image
\* reaches #diagram only for such a job; variant 4 never asks GET /status,
\* polls GET /result/<job>/dot itself and hands only the body of an OK
\* answer to the library.
C7_ImageOnlyFromReadyJob ==
  \A r \in Runs :
    /\ StatusPolling => /\ log[r].fetched => log[r].ready >= 1
                        /\ log[r].placed => (log[r].fetched /\ log[r].ready = 1)
    /\ variant = 4 => /\ ~log[r].polled
                      /\ log[r].viz > 0 => log[r].resultResp = "ok"
                      /\ log[r].placed => log[r].viz > 0

\* C7 witness: a status-polling run has fetched the result and shown it.
C7_Witness ==
  StatusPolling /\ \E r \in Runs : log[r].fetched /\ log[r].ready = 1 /\ log[r].placed

\* C8: a failed status request never ends the poll loop (variants 1, 2).
C8_StatusFailureRetried ==
  StatusPolling => \A r \in Runs : ended[r] # "pollCrashed"

\* C9: when GET /result is answered non-OK or the library rejects the
\* description, the run's last status text, once it has nothing more to do,
\* is an error message.
C9_RenderFailureSurfaced ==
  \A r \in Runs :
    ((log[r].resultResp = "500" \/ log[r].vizRejected) /\ Quiet(r))
       => log[r].text \in ErrorTexts

\* C10: in a run of variant 1 the steps come in the order submit, poll,
\* fetch, render: a status request only after the POST was answered OK with
\* the job id, the result fetch only after ready:true, the library only
\* after the description arrived, the image only after the library was
\* called; no step happens twice and at most one continuation is pending.
C10_StepsInOrder ==
  variant = 1 =>
    \A r \in Runs :
      /\ log[r].polled => (log[r].post /\ log[r].postResp = "ok" /\ job[r] = JobId(r))
      /\ log[r].fetched => (log[r].polled /\ log[r].ready = 1)
      /\ log[r].viz > 0 => (log[r].fetched /\ log[r].resultResp = "ok")
      /\ log[r].placed => log[r].viz = 1
      /\ log[r].render <= 1
      /\ log[r].viz <= 1
      /\ tasks[r]["post"] + tasks[r]["status"] + tasks[r]["timer"]
           + tasks[r]["dot"] + tasks[r]["viz"] <= 1
      /\ Pending(r, "post") => ~log[r].polled
      /\ (Pending(r, "status") \/ Pending(r, "timer")) => ~log[r].fetched
      /\ Pending(r, "dot") => log[r].viz = 0

\* C10 witness: a run of variant 1 went through all four steps, with a retry.
C10_Witness ==
  variant = 1 /\ fired >= 1 /\ \E r \in Runs : log[r].placed /\ ended[r] = "done"


\* What #diagram holds when it shows exactly the image currentSVG refers to.
Showing(svg) == IF svg = Null THEN <<>> ELSE <<svg>>

\* C11: a new run cancels nothing (variants 1, 2).  A call of run() leaves
\* the continuations of the earlier runs as they are; a retry timer that
\* fires issues the next status request; ready:true is followed by the
\* result fetch; and when the library resolves, the run's image replaces the
\* shared current image, whatever newer runs have rendered meanwhile.
C11_NoCancellation ==
  [][StatusPolling =>
       /\ nRuns' = nRuns + 1 =>
            \A r \in 1..nRuns : tasks'[r] = tasks[r] /\ ended'[r] = ended[r]
       /\ \A r \in Runs :
            /\ tasks'[r]["timer"] < tasks[r]["timer"] =>
                 tasks'[r]["status"] = tasks[r]["status"] + 1
            /\ log'[r].ready > log[r].ready =>
                 tasks'[r]["dot"] = tasks[r]["dot"] + 1
            /\ (tasks'[r]["viz"] < tasks[r]["viz"] /\ WellFormed(dot[r])) =>
                 /\ currentSVG' = RenderSVGElement(r, dot[r])
                 /\ diagram' = Showing(currentSVG')]_vars

\* C11 witness: the second run has rendered, and the first run, started
\* before it and retried at least once, rendered after it: the image on
\* hand is the first run's.
C11_Witness ==
  /\ variant = 1
  /\ fired >= 1
  /\ log[1].placed /\ log[2].placed
  /\ currentSVG.id = 1
  /\ diagram = <<currentSVG>>


\* C12: polling has no attempt limit and no timeout (variant 1 and
\* variant 4, the two poll loops the claim cites).  A run that has started
\* to poll and whose job was never reported ready has not ended and still
\* has a poll activity pending: a request in flight or a retry timer.
C12_PollsUntilReady ==
  \A r \in Runs :
    /\ (variant = 1 /\ log[r].polled /\ log[r].ready = 0) =>
         (ended[r] = "no" /\ tasks[r]["status"] + tasks[r]["timer"] >= 1)
    /\ (variant = 4 /\ log[r].fetched /\ log[r].resultResp # "ok") =>
         (ended[r] = "no" /\ tasks[r]["dot"] + tasks[r]["timer"] >= 1)


\* Status requests in flight plus retry timers scheduled for job id j, over
\* all runs.
PendingPolls(j) ==
  LET upTo[n \in 0..MaxRuns] ==
        IF n = 0 THEN 0
        ELSE upTo[n - 1] + (IF job[n] = j
                              THEN tasks[n]["status"] + tasks[n]["timer"]
                              ELSE 0)
  IN upTo[MaxRuns]

\* C13: in the first main.js script every job id has at most one poll
\* activity pending at any moment (one status request in flight or one retry
\* timer, over all runs), a poll activity is pending only for a job id the
\* backend handed out, and the runs that started a poll chain are exactly
\* the runs whose submission was answered OK.
C13_OnePendingPollPerJob ==
  variant = 1 =>
    /\ \A j \in {JobId(r) : r \in Runs} \cup {Undefined, NoJob} :
         PendingPolls(j) <= (IF j \in {Undefined, NoJob} THEN 0 ELSE 1)
    /\ \A r \in Runs : log[r].polled <=> log[r].postResp = "ok"

\* C13 witness: two overlapping runs, a status request of the first has
\* failed, and each job has its one poll activity pending: a retry timer
\* for one, a status request in flight for the other.
C13_Witness ==
  /\ variant = 1
  /\ statusFailed
  /\ fired >= 1
  /\ PendingPolls(JobId(1)) = 1 /\ Pending(1, "timer")
  /\ PendingPolls(JobId(2)) = 1 /\ Pending(2, "status")


\* C14: in the two scripts that keep currentSVG, after every step (each step
\* is one whole continuation, so no render is mid-way) #diagram holds
\* exactly the image currentSVG refers to, or both are empty; the file an
\* SVG export saves is the markup of what #diagram shows at that moment, and
\* a PNG export starts drawing from the serialization of that same image.
C14_ShownIsCurrent ==
  [][StatusPolling =>
       /\ diagram' = Showing(currentSVG')
       /\ (saved' # saved /\ saved'.name = "architecture.svg") =>
            <<saved'.content>> = View(diagram)
       /\ \A markup \in pngs' \ pngs :
            diagram # <<>> /\ markup = SerializeToString(diagram[1])]_vars

\* C14 witness: two overlapping runs have both rendered, and an SVG export
\* made afterwards saved the image that is in #diagram.
C14_Witness ==
  /\ variant = 1
  /\ log[1].placed /\ log[2].placed
  /\ saved.name = "architecture.svg"
  /\ diagram = <<currentSVG>>
  /\ <<saved.content>> = View(diagram)


\* Run r's render has failed: the result fetch rejected or was non-OK, or
\* the rendering library rejected.
RenderFailed(r) == ended[r] \in {"renderFailed", "renderCrashed"}

\* C15: in the two scripts that keep currentSVG, the step in which a render
\* fails leaves currentSVG and #diagram as they were; an SVG export made
\* once some render has failed saves the image of the last successful
\* render, and no export saves or starts anything if no render succeeded.
C15_FailedRenderKeepsImage ==
  [][StatusPolling =>
       /\ (\E r \in Runs : ~RenderFailed(r) /\ RenderFailed(r)') =>
            (currentSVG' = currentSVG /\ diagram' = diagram)
       /\ (\E r \in Runs : RenderFailed(r)) =>
            /\ (saved' # saved /\ saved'.name = "architecture.svg") =>
                 (/\ PlacedCount > 0
                  /\ saved'.content = <<"<svg>", lastDot, "</svg>">>
                  /\ <<saved'.content>> = View(diagram))
            /\ PlacedCount = 0 => (saved' = saved /\ pngs' = pngs)]_vars

\* C15 witness: the first run rendered, the rendering library rejected the
\* second run's description, the first run's image is still current and in
\* #diagram, and it is what an SVG export saved.
C15_Witness ==
  /\ variant = 1
  /\ log[1].placed /\ ended[1] = "done"
  /\ RenderFailed(2) /\ log[2].vizRejected
  /\ currentSVG.id = 1 /\ diagram = <<currentSVG>>
  /\ saved = Save("architecture.svg", OuterHTML(currentSVG))


\* C16: the status text "Done" is written for a run only once that run's
\* rendered image is in #diagram: whenever the last text a run wrote is
\* "Done", the run's image has been placed.
C16_DoneOnlyAfterPlaced ==
  \A r \in Runs : log[r].text = StDone => log[r].placed


\* C17: in the two main.js scripts, a run whose submission failed (the POST
\* rejected or was answered non-OK) issues no status request, polls no job
\* id at all (in particular not "undefined"), and never reaches render, so
\* it leaves currentSVG alone.
C17_FailedSubmitNoPoll ==
  StatusPolling =>
    \A r \in Runs :
      log[r].postResp \in {"500", "reject"} =>
        /\ ~log[r].polled
        /\ job[r] = NoJob
        /\ log[r].render = 0 /\ ~log[r].placed

====
